---- MODULE Spec2Model ----
(***************************************************************************)
(* Verification model of the interpretation event pipeline of              *)
(* translation-assistant: the webhook retry queue (WebhookQueue), the      *)
(* realtime session client (RealtimeClient), the transcript view           *)
(* (VoiceChat + conversationSlice) and the rule-based action detector      *)
(* (ActionDetector + MedicalTermDetector).                                 *)
(*                                                                         *)
(* Each component has its own specification (SpecHook, SpecClient,         *)
(* SpecView, SpecDetector); the variables of the other components keep     *)
(* their initial values under it.                                          *)
(***************************************************************************)
EXTENDS Integers, Sequences, FiniteSets, TLC

VARIABLES
  deliveries,     \* WebhookQueue: one record per processWebhook call chain
  utterances,     \* conversationSlice: state.conversation.utterances
  snapshot,       \* VoiceChat: the list getUtterancesRef.current() returns
  idCounter,      \* number of utterance ids handed out so far
  viewLog,        \* the last listener or reducer the view ran
  client,         \* RealtimeClient: status, pc, dc, localStream and what the
                  \* handler that ran last emitted and released
  connPc,         \* where the connect() call in flight is suspended
  connResult,     \* how the promise of the last connect() call settled
  connects,       \* number of connect() calls so far
  lastOp,         \* the client handler that ran last, and the one before
  utterance,      \* ActionDetector: the text of the detection request, as
                  \* its words in order
  ctxRole,        \* ActionDetector: context.speakerRole of the request
  fault,          \* ActionDetector: the matcher that throws when it is
                  \* called in this request, "none" if none does
  dictionary,     \* MedicalTermDetector: this.terms, in insertion order
  answers,        \* every detectActions / detectTerms call that returned so
                  \* far: what it was called with and what it returned
  detection,      \* ActionDetector: what detectActions returned, and how
                  \* often it called detectTerms; "pending" before it ran
  actionDocs,     \* db.collection('actions'): the stored document per action id
  validations,    \* the POST /api/actions/[id]/validate requests so far
  payloads,       \* WebhookExecutor: the payload that gets signed, and a
                  \* payload presented with its signature
  signing         \* WebhookExecutor: the signature made, and what
                  \* verifySignature answered for either payload

hookVars == <<deliveries>>
viewVars == <<utterances, snapshot, idCounter, viewLog>>

clientVars == <<client, connPc, connResult, connects, lastOp>>

detectorVars == <<utterance, ctxRole, fault, dictionary, answers, detection>>
routeVars == <<actionDocs, validations>>
signVars == <<payloads, signing>>

vars == <<deliveries, utterances, snapshot, idCounter, viewLog,
          client, connPc, connResult, connects, lastOp,
          utterance, ctxRole, fault, dictionary, answers, detection,
          actionDocs, validations, payloads, signing>>

notHook == <<viewVars, clientVars, detectorVars, routeVars, signVars>>
notView == <<hookVars, clientVars, detectorVars, routeVars, signVars>>
notClient == <<hookVars, viewVars, detectorVars, routeVars, signVars>>
notDetector == <<hookVars, viewVars, clientVars, routeVars, signVars>>
notRoute == <<hookVars, viewVars, clientVars, detectorVars, signVars>>
notSign == <<hookVars, viewVars, clientVars, detectorVars, routeVars>>

(***************************************************************************)
(* WebhookExecutor / WebhookQueue                                          *)
(***************************************************************************)

\* private maxRetries: number = 3
maxRetries == 3
\* private baseDelay: number = 2000 (milliseconds)
baseDelay == 2000

\* Number of processWebhook call chains the model starts.
MaxDeliveries == 2

ActionIds == {"a1", "a2"}

\* What the network does with one POST of executeWebhook.
FetchOutcomes == {"2xx", "non2xx", "abort", "networkError"}

\* How a block of executeWebhook ends: with a returned result or a throw
Returns(success, error) ==
  [kind |-> "return", success |-> success, error |-> error]
Throws(name, message) ==
  [kind |-> "throw", success |-> FALSE, error |-> message, name |-> name]

\* The inner try block: fetch, response.text(), the response.ok test.
\* An abort by the timeout controller throws an AbortError, a network
\* failure the error of fetch.
innerTry(outcome) ==
  CASE outcome = "2xx"          -> Returns(TRUE, "none")
    [] outcome = "non2xx"       -> Returns(FALSE, "Webhook returned 500: body")
    [] outcome = "abort"        -> Throws("AbortError", "This operation was aborted")
    [] outcome = "networkError" -> Throws("TypeError", "fetch failed")

\* The inner catch: an AbortError becomes the timeout result, anything else
\* is thrown on.
innerCatch(block) ==
  IF block.kind = "throw" /\ block.name = "AbortError"
  THEN Returns(FALSE, "Webhook timeout after 30000ms")
  ELSE block

\* An outer catch that throws the error on
outerCatchRethrows(block) == block

\* The outer catch: every throw becomes { success: false, error: message }.
outerCatch(block) ==
  IF block.kind = "throw" THEN Returns(FALSE, block.error) ELSE block

\* executeWebhook: how the promise settles, by what fetch did.
executeWebhook(outcome) ==
  LET block == outerCatch(innerCatch(innerTry(outcome)))
  IN [success |-> block.success, error |-> block.error,
      rejected |-> block.kind = "throw"]

NoDelivery ==
  [phase |-> "idle", action |-> "none", attempt |-> 0, started |-> 0,
   fetched |-> <<>>, results |-> <<>>, delays |-> <<>>, updates |-> <<>>]

\* processWebhook up to its first await: executeWebhook is called for `attempt`.
BeginAttempt(d, action, attempt) ==
  [d EXCEPT !.phase = "executing", !.action = action, !.attempt = attempt,
            !.started = @ + 1]

\* const delay = this.baseDelay * Math.pow(2, attempt - 1)
BackoffDelayDoubledEarly(attempt) == baseDelay * 2^attempt
BackoffDelay(attempt) == baseDelay * 2^(attempt - 1)

\* if (attempt >= this.maxRetries)
RetriesExhaustedOffByOne(attempt) == attempt > maxRetries
RetriesExhausted(attempt) == attempt >= maxRetries

\* updateActionWebhookStatus(actionId, webhookUpdate): the source only logs the
\* update, so the model records the calls and no stored status.
updateActionWebhookStatus(d, status, error) ==
  [d EXCEPT !.updates = Append(@, [status |-> status, attempts |-> d.attempt,
                                   error |-> error])]

\* processWebhook after `await executeWebhook` returned `result`.
\* A success that does not return falls through to the retry branch.
ContinueAfterResultNoReturn(d, result) ==
  LET d1 == [d EXCEPT !.results = Append(@, result)] IN
  LET d2 == IF result.success
            THEN updateActionWebhookStatus(d1, "sent", "none") ELSE d1 IN
  IF RetriesExhausted(d.attempt)
  THEN [updateActionWebhookStatus(d2, "failed", result.error) EXCEPT !.phase = "done"]
  ELSE [d2 EXCEPT !.phase = "timer", !.delays = Append(@, BackoffDelay(d.attempt))]

\* A last failure that still records a backoff delay before giving up.
ContinueAfterResultDelaysLast(d, result) ==
  LET d1 == [d EXCEPT !.results = Append(@, result)] IN
  IF result.success
  THEN [updateActionWebhookStatus(d1, "sent", "none") EXCEPT !.phase = "done"]
  ELSE IF RetriesExhausted(d.attempt)
  THEN [updateActionWebhookStatus(d1, "failed", result.error) EXCEPT
          !.phase = "done", !.delays = Append(@, BackoffDelay(d.attempt))]
  ELSE [d1 EXCEPT !.phase = "timer", !.delays = Append(@, BackoffDelay(d.attempt))]

ContinueAfterResult(d, result) ==
  LET d1 == [d EXCEPT !.results = Append(@, result)] IN
  IF result.success
  THEN [updateActionWebhookStatus(d1, "sent", "none") EXCEPT !.phase = "done"]
  ELSE IF RetriesExhausted(d.attempt)
  THEN [updateActionWebhookStatus(d1, "failed", result.error) EXCEPT !.phase = "done"]
  ELSE [d1 EXCEPT !.phase = "timer", !.delays = Append(@, BackoffDelay(d.attempt))]

InitDeliveries == deliveries = [i \in 1..MaxDeliveries |-> NoDelivery]

\* A caller invokes processWebhook(action, url) with the default attempt = 1.
processWebhook(i, a) ==
  /\ deliveries[i].phase = "idle"
  /\ \A j \in 1..(i - 1) : deliveries[j].phase # "idle"
  /\ deliveries' = [deliveries EXCEPT ![i] = BeginAttempt(@, a, 1)]
  /\ UNCHANGED notHook

\* The awaited executeWebhook resolves and processWebhook runs to its end.
AttemptReturns(i, outcome) ==
  /\ deliveries[i].phase = "executing"
  /\ deliveries' = [deliveries EXCEPT
                      ![i] = ContinueAfterResult(
                               [@ EXCEPT !.fetched = Append(@, outcome)],
                               executeWebhook(outcome))]
  /\ UNCHANGED notHook

\* The setTimeout callback runs: processWebhook(action, url, attempt + 1).
RetryTimerFires(i) ==
  /\ deliveries[i].phase = "timer"
  /\ deliveries' = [deliveries EXCEPT
                      ![i] = BeginAttempt(@, @.action, @.attempt + 1)]
  /\ UNCHANGED notHook

StartDelivery == \E i \in 1..MaxDeliveries, a \in ActionIds : processWebhook(i, a)
FinishAttempt == \E i \in 1..MaxDeliveries, o \in FetchOutcomes : AttemptReturns(i, o)
FireTimer == \E i \in 1..MaxDeliveries : RetryTimerFires(i)


(***************************************************************************)
(* Transcript view: VoiceChat listeners over the conversationSlice store   *)
(***************************************************************************)

\* Utterances created per conversation, and utterance ids handed out in all.
MaxUtterances == 3
MaxIds == 4

\* Transcripts a translation event can carry (never empty: the client emits
\* a translation only for a truthy transcript).
Texts == {"t1", "t2"}
NoText == "undefined"
NoId == 0

\* initialState.utterances and useRef(() => [])
InitUtterances ==
  /\ utterances = <<>>
  /\ snapshot = <<>>
  /\ idCounter = 0
  /\ viewLog = [op |-> "none", text |-> NoText, tick |-> 0]

Logged(op, text) == [op |-> op, text |-> text, tick |-> 1 - viewLog.tick]

\* addUtterance numbering by the index of the last utterance
addUtteranceNumberedFromLast(state, id) ==
  Append(state, [id |-> id,
                 sequenceNumber |-> IF state = <<>> THEN 1 ELSE Len(state),
                 translatedText |-> NoText])

\* reducer addUtterance: id fresh, sequenceNumber = utterances.length + 1
addUtterance(state, id) ==
  Append(state, [id |-> id, sequenceNumber |-> Len(state) + 1,
                 translatedText |-> NoText])

\* reducer updateUtteranceTranslation: find by id, then overwrite
updateUtteranceTranslation(state, id, text) ==
  [k \in DOMAIN state |->
     IF state[k].id = id /\ \A j \in 1..(k - 1) : state[j].id # id
     THEN [state[k] EXCEPT !.translatedText = text]
     ELSE state[k]]

\* The utterance a translation should go to if the handler looked for the
\* most recently created utterance that lacks a translation.
translationTargetLatestUntranslated(current) ==
  LET lacking == {k \in DOMAIN current : current[k].translatedText = NoText} IN
  IF lacking = {} THEN NoId
  ELSE current[CHOOSE k \in lacking : \A j \in lacking : j <= k].id

\* client.on('translation'): the id the handler dispatches for, NoId if none.
\* It reads the last element of the list the ref returns.
translationTarget(current) ==
  IF Len(current) > 0 /\ current[Len(current)].translatedText = NoText
  THEN current[Len(current)].id
  ELSE NoId

\* handleStart: dispatch(startConversation(...)) empties the list.
StartConversation ==
  /\ utterances' = <<>>
  /\ viewLog' = Logged("startConversation", NoText)
  /\ UNCHANGED <<snapshot, idCounter>>
  /\ UNCHANGED notView

\* client.on('utterance'): dispatch(addUtterance(utterance))
OnUtterance ==
  /\ Len(utterances) < MaxUtterances
  /\ idCounter < MaxIds
  /\ idCounter' = idCounter + 1
  /\ utterances' = addUtterance(utterances, idCounter + 1)
  /\ viewLog' = Logged("utterance", NoText)
  /\ UNCHANGED snapshot
  /\ UNCHANGED notView

\* client.on('translation')
OnTranslation(text) ==
  LET target == translationTarget(snapshot) IN
  /\ utterances' = IF target = NoId THEN utterances
                   ELSE updateUtteranceTranslation(utterances, target, text)
  /\ viewLog' = Logged("translation", text)
  /\ UNCHANGED <<snapshot, idCounter>>
  /\ UNCHANGED notView

\* useEffect(() => { getUtterancesRef.current = () => utterances }, [utterances])
\* runs after React has rendered the store's new list.
RefreshRef ==
  /\ snapshot # utterances
  /\ snapshot' = utterances
  /\ UNCHANGED <<utterances, idCounter, viewLog>>
  /\ UNCHANGED notView

TranslationArrives == \E text \in Texts : OnTranslation(text)

NextView == StartConversation \/ OnUtterance \/ TranslationArrives \/ RefreshRef

(***************************************************************************)
(* RealtimeClient                                                          *)
(***************************************************************************)

\* connect() calls the model makes.
MaxConnects == 2

ConnectionStatus == {"idle", "connecting", "connected", "error", "disconnected"}

\* The awaits of connect(), in order.
ConnectAwaits == <<"fetchToken", "tokenJson", "getUserMedia", "createOffer",
                   "setLocalDescription", "fetchSdp", "sdpText",
                   "setRemoteDescription">>

\* Field initialisers of the class: everything null, status 'idle'.
\* ice is the iceConnectionState of the connection this.pc refers to;
\* leaked counts peer connections and streams that were overwritten or left
\* behind without being closed.
NewClient ==
  [status |-> "idle", pc |-> "null", dc |-> "null", localStream |-> "null",
   lastUtteranceId |-> "null", ice |-> "none", emitted |-> <<>>, leaked |-> 0]

InitClient ==
  /\ client = NewClient
  /\ connPc = "none"
  /\ connResult = "none"
  /\ connects = 0
  /\ lastOp = [op |-> "none", prev |-> "none", tick |-> 0]

Ran(op) == [op |-> op, prev |-> lastOp.op, tick |-> 1 - lastOp.tick]

\* A handler starts running: nothing emitted by it yet.
Enter(c) == [c EXCEPT !.emitted = <<>>]

\* emit(event, ...): the listener, if any, is called synchronously.
emit(c, event) == [c EXCEPT !.emitted = Append(@, event)]

\* setStatus: assigns and emits statusChanged, whatever the old status.
setStatus(c, status) ==
  emit([c EXCEPT !.status = status], "statusChanged:" \o status)

\* disconnect() that closes the peer connection but keeps the reference.
disconnectKeepsPc(c) ==
  LET c1 == IF c.localStream # "null"
            THEN emit([c EXCEPT !.localStream = "null"], "stop:localStream")
            ELSE c
      c2 == IF c1.dc # "null"
            THEN emit([c1 EXCEPT !.dc = "null"], "close:dc") ELSE c1
      c3 == IF c2.pc # "null"
            THEN emit([c2 EXCEPT !.ice = "closed"], "close:pc") ELSE c2
  IN setStatus(c3, "disconnected")

\* disconnect(): stop and release the stream, the data channel and the peer
\* connection, each only if it is set, then setStatus('disconnected').
disconnect(c) ==
  LET c1 == IF c.localStream # "null"
            THEN emit([c EXCEPT !.localStream = "null"], "stop:localStream")
            ELSE c
      c2 == IF c1.dc # "null"
            THEN emit([c1 EXCEPT !.dc = "null"], "close:dc") ELSE c1
      c3 == IF c2.pc # "null"
            THEN emit([c2 EXCEPT !.pc = "null", !.ice = "none"], "close:pc")
            ELSE c2
  IN setStatus(c3, "disconnected")

\* The catch block of connect() with the error event emitted first.
connectCatchErrorFirst(c) ==
  disconnect(setStatus(emit(c, "error"), "error"))

\* The catch block of connect(): setStatus('error'), emit('error'),
\* disconnect(); the caller then sees the promise rejected.
connectCatch(c) ==
  disconnect(emit(setStatus(c, "error"), "error"))

\* pc.oniceconnectionstatechange: it reads this.pc?.iceConnectionState.
onIceConnectionStateChange(c) ==
  IF c.pc = "null" THEN c
  ELSE IF c.ice = "connected" THEN setStatus(c, "connected")
  ELSE IF c.ice = "failed" THEN emit(setStatus(c, "error"), "error")
  ELSE c

\* connect() up to its first await: setStatus('connecting'), then fetch.
Connect ==
  /\ connPc = "none"
  /\ connects < MaxConnects
  /\ connects' = connects + 1
  /\ client' = setStatus(Enter(client), "connecting")
  /\ connPc' = "fetchToken"
  /\ connResult' = "none"
  /\ lastOp' = Ran("connect")
  /\ UNCHANGED notClient

\* An awaited step of connect() rejects, or its result makes connect() throw
\* (token response not ok, no token, SDP response not ok).
ConnectStepFails ==
  /\ connPc # "none"
  /\ client' = connectCatch(Enter(client))
  /\ connPc' = "none"
  /\ connResult' = "rejected"
  /\ lastOp' = Ran("fail:" \o connPc)
  /\ UNCHANGED connects
  /\ UNCHANGED notClient

\* Steps of connect() that only wait for the next promise.
ConnectAwaitsNext ==
  /\ \/ connPc = "fetchToken" /\ connPc' = "tokenJson"
     \/ connPc = "setLocalDescription" /\ connPc' = "fetchSdp"
     \/ connPc = "fetchSdp" /\ connPc' = "sdpText"
  /\ client' = Enter(client)
  /\ lastOp' = Ran("resume")
  /\ UNCHANGED <<connResult, connects>>
  /\ UNCHANGED notClient

\* The token arrived: this.pc = new RTCPeerConnection(...), handlers set,
\* then getUserMedia is awaited. A connection still referenced is overwritten.
ConnectCreatesPc ==
  /\ connPc = "tokenJson"
  /\ client' = [Enter(client) EXCEPT
                  !.pc = "open", !.ice = "new",
                  !.leaked = IF client.pc # "null" THEN @ + 1 ELSE @]
  /\ connPc' = "getUserMedia"
  /\ lastOp' = Ran("resume")
  /\ UNCHANGED <<connResult, connects>>
  /\ UNCHANGED notClient

\* getUserMedia resolved: this.localStream is assigned; the tracks are added
\* if this.pc is set; this.pc.createDataChannel throws if this.pc is null.
ConnectGotMedia ==
  /\ connPc = "getUserMedia"
  /\ LET c1 == [Enter(client) EXCEPT
                  !.localStream = "live",
                  !.leaked = IF client.localStream # "null" THEN @ + 1 ELSE @]
     IN IF c1.pc = "null"
        THEN /\ client' = connectCatch(c1)
             /\ connPc' = "none"
             /\ connResult' = "rejected"
             /\ lastOp' = Ran("fail:createDataChannel")
        ELSE /\ client' = [c1 EXCEPT !.dc = "open"]
             /\ connPc' = "createOffer"
             /\ connResult' = connResult
             /\ lastOp' = Ran("resume")
  /\ UNCHANGED connects
  /\ UNCHANGED notClient

\* A step that dereferences this.pc after an await: createOffer resolved and
\* this.pc.setLocalDescription is called, or the SDP answer arrived and
\* this.pc.setRemoteDescription is called. With this.pc null it throws.
ConnectUsesPc ==
  /\ connPc \in {"createOffer", "sdpText"}
  /\ IF client.pc = "null"
     THEN /\ client' = connectCatch(Enter(client))
          /\ connPc' = "none"
          /\ connResult' = "rejected"
          /\ lastOp' = Ran("fail:" \o connPc)
     ELSE /\ client' = Enter(client)
          /\ connPc' = IF connPc = "createOffer" THEN "setLocalDescription"
                       ELSE "setRemoteDescription"
          /\ connResult' = connResult
          /\ lastOp' = Ran("resume")
  /\ UNCHANGED connects
  /\ UNCHANGED notClient

\* setRemoteDescription resolved: connect() returns.
ConnectReturns ==
  /\ connPc = "setRemoteDescription"
  /\ client' = Enter(client)
  /\ connPc' = "none"
  /\ connResult' = "resolved"
  /\ lastOp' = Ran("resume")
  /\ UNCHANGED connects
  /\ UNCHANGED notClient

\* disconnect() is public and synchronous: VoiceChat calls it from handleStop
\* and from the unmount cleanup.
Disconnect ==
  /\ client' = disconnect(Enter(client))
  /\ lastOp' = Ran("disconnect")
  /\ UNCHANGED <<connPc, connResult, connects>>
  /\ UNCHANGED notClient

\* The ICE agent of the connection this.pc refers to changes state and the
\* handler runs. Checking starts once the remote description is applied.
IceTransitions ==
  {<<"new", "checking">>, <<"checking", "connected">>, <<"checking", "failed">>,
   <<"connected", "disconnected">>, <<"disconnected", "connected">>,
   <<"disconnected", "failed">>}

IceStateChanges(to) ==
  /\ client.pc # "null"
  /\ <<client.ice, to>> \in IceTransitions
  /\ client.ice = "new" => (connPc = "setRemoteDescription" \/ connResult = "resolved")
  /\ client' = onIceConnectionStateChange([Enter(client) EXCEPT !.ice = to])
  /\ lastOp' = Ran("ice:" \o to)
  /\ UNCHANGED <<connPc, connResult, connects>>
  /\ UNCHANGED notClient

IceEvent == \E to \in {"checking", "connected", "disconnected", "failed"} :
              IceStateChanges(to)

\* Ids of the conversation items the realtime API announces
ItemIds == {"item_1", "item_2"}

\* handleRealtimeEvent, case "conversation.item.created" for a user item
\* with a transcript: remember its id, then emit 'utterance'.
handleUserItemCreated(c, id) ==
  emit([c EXCEPT !.lastUtteranceId = id], "utterance")

\* dc.onmessage delivers the event on the open data channel.
UserItemCreated(id) ==
  /\ client.dc # "null"
  /\ client.ice = "connected"
  /\ client' = handleUserItemCreated(Enter(client), id)
  /\ lastOp' = Ran("item:created")
  /\ UNCHANGED <<connPc, connResult, connects>>
  /\ UNCHANGED notClient

ItemEvent == \E id \in ItemIds : UserItemCreated(id)

\* Frames the data channel can deliver (event.data), as text.
SpeechStartedFrame == "{\"type\":\"input_audio_buffer.speech_started\"}"
TranscriptDoneFrame ==
  "{\"type\":\"response.audio_transcript.done\",\"transcript\":\"hola\"}"
ErrorFrame == "{\"type\":\"error\"}"
UnhandledFrame == "{\"type\":\"session.created\"}"
WellFormedFrames ==
  {SpeechStartedFrame, TranscriptDoneFrame, ErrorFrame, UnhandledFrame}
\* Text that is not JSON, a truncated object, and the JSON literal null
DataFrames == WellFormedFrames \cup {"not json", "{\"type\":", "null"}

\* JSON.parse(event.data): the value, or a SyntaxError thrown
jsonParse(data) ==
  CASE data = SpeechStartedFrame ->
         [threw |-> FALSE, type |-> "input_audio_buffer.speech_started",
          transcript |-> "undefined"]
    [] data = TranscriptDoneFrame ->
         [threw |-> FALSE, type |-> "response.audio_transcript.done",
          transcript |-> "hola"]
    [] data = ErrorFrame ->
         [threw |-> FALSE, type |-> "error", transcript |-> "undefined"]
    [] data = UnhandledFrame ->
         [threw |-> FALSE, type |-> "session.created",
          transcript |-> "undefined"]
    [] data = "null" ->
         [threw |-> FALSE, type |-> "null", transcript |-> "null"]
    [] OTHER -> [threw |-> TRUE, type |-> "SyntaxError", transcript |-> "undefined"]

\* handleRealtimeEvent(event): the switch on event.type. Reading event.type
\* of the value null throws a TypeError before anything is emitted.
handleRealtimeEvent(c, event) ==
  CASE event.type = "null" -> [threw |-> TRUE, c |-> c]
    [] event.type = "input_audio_buffer.speech_started" ->
         [threw |-> FALSE, c |-> emit(c, "speechStart")]
    [] event.type = "input_audio_buffer.speech_stopped" ->
         [threw |-> FALSE, c |-> emit(c, "speechEnd")]
    [] event.type = "response.audio_transcript.done" ->
         [threw |-> FALSE,
          c |-> IF event.transcript # "undefined" THEN emit(c, "translation")
                ELSE c]
    [] event.type = "error" -> [threw |-> FALSE, c |-> emit(c, "error")]
    [] OTHER -> [threw |-> FALSE, c |-> c]

\* The catch block of dc.onmessage that reports the failure as an error event
onmessageCatchEmitsError(c) == emit(c, "error")

\* The catch block of dc.onmessage: console.error only.
onmessageCatch(c) == c

\* dc.onmessage: try { JSON.parse; handleRealtimeEvent } catch { log }
onmessage(c, data) ==
  LET parsed == jsonParse(data)
  IN IF parsed.threw THEN onmessageCatch(c)
     ELSE LET handled == handleRealtimeEvent(c, parsed)
          IN IF handled.threw THEN onmessageCatch(handled.c) ELSE handled.c

\* A frame arrives on the open data channel and dc.onmessage runs.
MessageArrives(data) ==
  /\ client.dc # "null"
  /\ client.ice = "connected"
  /\ client' = onmessage(Enter(client), data)
  /\ lastOp' = Ran("message:" \o data)
  /\ UNCHANGED <<connPc, connResult, connects>>
  /\ UNCHANGED notClient

MessageEvent == \E data \in DataFrames : MessageArrives(data)

NextClient ==
  \/ Connect \/ ConnectStepFails \/ ConnectAwaitsNext \/ ConnectCreatesPc
  \/ ConnectGotMedia \/ ConnectUsesPc \/ ConnectReturns
  \/ Disconnect \/ IceEvent \/ ItemEvent \/ MessageEvent

(***************************************************************************)
(* MedicalTermDetector / ActionDetector (rule-based)                       *)
(*                                                                         *)
(* A text is modelled as the sequence of its words, joined by single       *)
(* spaces and already in lower case.  Every regular expression of the      *)
(* source is modelled by what it matches on such a text: each piece of the *)
(* pattern becomes the set of vocabulary words that piece can match, and   *)
(* \s+ becomes "the next word".  Confidences are in hundredths.            *)
(***************************************************************************)

Roles == {"clinician", "patient"}

\* A word of 45 letters: it puts a dosage 50 characters or more after the
\* medication named before it.
LongWord == "pneumonoultramicroscopicsilicovolcanoconiosis"

\* The texts of the model are these sentences with any of their words left
\* out (order kept).
Sentences == {
  <<"prescribe", "advil", "400", "mg", "tid", "for", "7", "days">>,
  <<"ibuprofen", LongWord, "400", "mg", "every", "7", "hours">>,
  <<"advil", "400", "milligrams", "twice", "a", "daily", "days">>,
  <<"i'm", "ordering", "a", "complete", "blood", "count">>,
  <<"order", "a", "blood", "work", "cbc", "stat", "today">>,
  <<"follow", "up", "in", "two", "weeks">>,
  <<"return", "in", "a", "7", "weeks", "mri">>,
  <<"refer", "to", "a", "cardiologist", "soon", "stat", "ultrasound">> }

Pick(s, keep) ==
  LET F[i \in 0..Len(s)] ==
        IF i = 0 THEN <<>>
        ELSE IF i \in keep THEN Append(F[i - 1], s[i]) ELSE F[i - 1]
  IN F[Len(s)]

Utterances == UNION { { Pick(s, keep) : keep \in SUBSET (1..Len(s)) } : s \in Sentences }

\* match.index of a match that starts at word i: the characters before it.
RECURSIVE OffsetOf(_, _)
OffsetOf(u, i) == IF i = 1 THEN 0 ELSE OffsetOf(u, i - 1) + Len(u[i - 1]) + 1

Least(S) == CHOOSE x \in S : \A y \in S : x <= y
Distance(a, b) == IF a < b THEN b - a ELSE a - b

\* Words i, i+1, ... of u are the words of phrase.  All words of the
\* vocabulary but "i'm" are runs of word characters, and no dictionary name
\* is part of "i'm", so \bname\b matches exactly at equal words.
PhraseAt(u, phrase, i) ==
  /\ i + Len(phrase) - 1 <= Len(u)
  /\ SubSeq(u, i, i + Len(phrase) - 1) = phrase

\* regex.exec(normalizedText) without the g flag: the leftmost match, 0 if none
FirstPhrase(u, phrase) ==
  LET at == {i \in 1..Len(u) : PhraseAt(u, phrase, i)}
  IN IF at = {} THEN 0 ELSE Least(at)

\* initializeMedicalDictionary: names[1] is the term, the others its synonyms
Entry(term, category, names) == [term |-> term, category |-> category, names |-> names]

medicalTerms == <<
  Entry("amoxicillin", "medication", << <<"amoxicillin">>, <<"amoxil">> >>),
  Entry("ibuprofen", "medication", << <<"ibuprofen">>, <<"advil">>, <<"motrin">> >>),
  Entry("metformin", "medication", << <<"metformin">>, <<"glucophage">> >>),
  Entry("lisinopril", "medication", << <<"lisinopril">>, <<"prinivil">>, <<"zestril">> >>),
  Entry("aspirin", "medication",
        << <<"aspirin">>, <<"asa">>, <<"acetylsalicylic", "acid">> >>),
  Entry("tylenol", "medication",
        << <<"tylenol">>, <<"acetaminophen">>, <<"paracetamol">> >>),
  Entry("prednisone", "medication", << <<"prednisone">>, <<"deltasone">> >>),
  Entry("antibiotic", "medication", << <<"antibiotic">>, <<"antibiotics">> >>),
  Entry("pain medication", "medication",
        << <<"pain", "medication">>, <<"pain", "med">>, <<"pain", "meds">>,
           <<"painkiller">>, <<"analgesic">> >>),
  Entry("diabetes", "condition",
        << <<"diabetes">>, <<"diabetes", "mellitus">>, <<"dm">> >>),
  Entry("hypertension", "condition",
        << <<"hypertension">>, <<"high", "blood", "pressure">>, <<"htn">> >>),
  Entry("asthma", "condition",
        << <<"asthma">>, <<"reactive", "airway", "disease">> >>),
  Entry("pneumonia", "condition", << <<"pneumonia">>, <<"lung", "infection">> >>),
  Entry("cbc", "lab",
        << <<"cbc">>, <<"complete", "blood", "count">>, <<"blood", "count">> >>),
  Entry("metabolic panel", "lab",
        << <<"metabolic", "panel">>, <<"bmp">>, <<"basic", "metabolic", "panel">>,
           <<"cmp">>, <<"comprehensive", "metabolic", "panel">> >>),
  Entry("glucose", "lab",
        << <<"glucose">>, <<"blood", "sugar">>, <<"blood", "glucose">> >>),
  Entry("hemoglobin a1c", "lab",
        << <<"hemoglobin", "a1c">>, <<"hba1c">>, <<"a1c">>,
           <<"glycated", "hemoglobin">> >>),
  Entry("x-ray", "procedure", << <<"x-ray">>, <<"radiograph">>, <<"xray">> >>),
  Entry("mri", "procedure", << <<"mri">>, <<"magnetic", "resonance", "imaging">> >>),
  Entry("ct scan", "procedure",
        << <<"ct", "scan">>, <<"cat", "scan">>, <<"computed", "tomography">> >>),
  Entry("heart", "anatomy", << <<"heart">>, <<"cardiac">>, <<"coronary">> >>),
  Entry("lung", "anatomy", << <<"lung">>, <<"pulmonary">>, <<"respiratory">> >>),
  Entry("liver", "anatomy", << <<"liver">>, <<"hepatic">> >>),
  Entry("kidney", "anatomy", << <<"kidney">>, <<"renal">> >>) >>

\* The words of the vocabulary that \d+(?:\.\d+)? matches as a whole
NumberWords == {"400", "7"}
\* ... that (mg|g|ml|cc|mcg|units?|tablets?|pills?)\b matches as a whole
StrictUnitWords == {"mg"}

\* One DetectedTerm per dictionary name found in the text, in the order
\* detectTerms pushes them: the term (confidence 1.0), then its synonyms (0.9).
\* Each is a copy ({...term, confidence, position}) of the entry in this.terms.
RECURSIVE NameHits(_, _, _)
NameHits(u, e, k) ==
  IF k > Len(e.names) THEN <<>>
  ELSE LET i == FirstPhrase(u, e.names[k])
           hit == [term |-> e.term, category |-> e.category,
                   confidence |-> IF k = 1 THEN 100 ELSE 90,
                   position |-> OffsetOf(u, i)]
       IN (IF i = 0 THEN <<>> ELSE <<hit>>) \o NameHits(u, e, k + 1)

RECURSIVE DictionaryHits(_, _)
DictionaryHits(u, n) ==
  IF n > Len(dictionary) THEN <<>>
  ELSE NameHits(u, dictionary[n], 1) \o DictionaryHits(u, n + 1)

\* dosagePattern.exec in a loop: dosageMatch.index of every match, in order
dosageMatches(u) ==
  LET F[i \in 0..Len(u)] ==
        IF i = 0 THEN <<>>
        ELSE IF i < Len(u) /\ u[i] \in NumberWords /\ u[i + 1] \in StrictUnitWords
             THEN Append(F[i - 1], OffsetOf(u, i))
             ELSE F[i - 1]
  IN F[Len(u)]

\* Math.min(1.0, c)
AtMostOne(c) == IF c > 100 THEN 100 ELSE c

\* Each dosage raises the first detected medication less than 50 characters
\* away from it by 0.1, capped at 1.0.
RECURSIVE boostNearbyMedication(_, _)
boostNearbyMedication(detected, dosages) ==
  IF dosages = <<>> THEN detected
  ELSE LET near == {k \in DOMAIN detected :
                      /\ detected[k].category = "medication"
                      /\ Distance(detected[k].position, Head(dosages)) < 50}
       IN IF near = {} THEN boostNearbyMedication(detected, Tail(dosages))
          ELSE boostNearbyMedication(
                 [detected EXCEPT ![Least(near)].confidence = AtMostOne(@ + 10)],
                 Tail(dosages))

\* removeDuplicates: one entry per `${term}-${position}`, in the order the
\* keys first appear; a later entry replaces an earlier one only when its
\* confidence is strictly higher.
SameKey(a, b) == a.term = b.term /\ a.position = b.position

removeDuplicates(terms) ==
  LET Seen(k) ==
        LET same == {j \in DOMAIN terms : SameKey(terms[j], terms[k])}
            best == {j \in same :
                       \A l \in same : terms[l].confidence <= terms[j].confidence}
        IN terms[Least(best)]
      F[i \in 0..Len(terms)] ==
        IF i = 0 THEN <<>>
        ELSE IF \E j \in 1..(i - 1) : SameKey(terms[j], terms[i])
             THEN F[i - 1]
             ELSE Append(F[i - 1], Seen(i))
  IN F[Len(terms)]

\* Array.prototype.sort((a, b) => a.position - b.position), which is stable
RECURSIVE InsertByPosition(_, _)
InsertByPosition(sorted, t) ==
  IF sorted = <<>> THEN <<t>>
  ELSE IF t.position < Head(sorted).position THEN <<t>> \o sorted
  ELSE <<Head(sorted)>> \o InsertByPosition(Tail(sorted), t)

sortByPosition(terms) ==
  LET F[i \in 0..Len(terms)] ==
        IF i = 0 THEN <<>> ELSE InsertByPosition(F[i - 1], terms[i])
  IN F[Len(terms)]

detectTerms(u) ==
  sortByPosition(removeDuplicates(
    boostNearbyMedication(DictionaryHits(u, 1), dosageMatches(u))))

\* this.terms after detectTerms(u), had the call taken the entries it
\* matched out of the map
termsAfterLookupConsuming(dict, u) ==
  SelectSeq(dict, LAMBDA e : \A k \in DOMAIN e.names : FirstPhrase(u, e.names[k]) = 0)

\* this.terms after detectTerms(u): the call iterates the map and writes
\* only to the copies it pushed, so the map is as it was.
termsAfterLookup(dict, u) == dict

Join(words) ==
  LET F[i \in 0..Len(words)] ==
        IF i = 0 THEN ""
        ELSE IF i = 1 THEN words[1] ELSE F[i - 1] \o " " \o words[i]
  IN F[Len(words)]

OfCategory(terms, category) == SelectSeq(terms, LAMBDA t : t.category = category)

\* A word of the text, "" past its end
Word(u, i) == IF i \in 1..Len(u) THEN u[i] ELSE ""

\* The index after an optional word: (?:word\s+)? is greedy, and in every
\* pattern below the word it skips cannot also be what follows it.
SkipWord(u, i, word) == IF Word(u, i) = word THEN i + 1 ELSE i

DetectedAction(type, confidence, detail, urgency) ==
  [type |-> type, confidence |-> confidence, detail |-> detail, urgency |-> urgency]

NoAction == DetectedAction("null", 0, "", "")

\* ---- detectPrescription ----
\* Words that begin with (mg|milligrams?|g|grams?|ml|milliliters?|cc|mcg|
\* micrograms?|units?); the pattern has no \b after the unit.
LooseUnitWords == {"mg", "milligrams"}
\* (?:a|per) between \s+ and \s+
PerWords == {"a"}
\* Words that begin with day
DayWords == {"days"}
\* Words that end in every or q; words that begin with hours? or hrs?
EveryWords == {"every"}
HourWords == {"hours"}
\* Words that end in twice (no word of the vocabulary gives "three times" or
\* "four times"); words that begin with day or daily
TwiceWords == {"twice"}
DailyWords == {"daily", "days"}
\* Words that contain bid, tid, qid, qd or prn
FrequencyCodeWords == {"tid"}
\* Words that end in for; words that begin with days?, weeks? or months?
ForWords == {"for"}
PeriodWords == {"days", "weeks"}
\* Words that contain prescribe, prescription or rx
PrescribeWords == {"prescribe"}

hasDosage(u) ==
  \E i \in 1..Len(u) : u[i] \in NumberWords /\ Word(u, i + 1) \in LooseUnitWords

\* frequencyPatterns.some(pattern => utterance.match(pattern)); (\w+) of the
\* first pattern is any word before "a", so the text must not begin there.
hasFrequency(u) ==
  \/ \E i \in 2..Len(u) : u[i] \in PerWords /\ Word(u, i + 1) \in DayWords
  \/ \E i \in 1..Len(u) : /\ u[i] \in EveryWords
                          /\ Word(u, i + 1) \in NumberWords
                          /\ Word(u, i + 2) \in HourWords
  \/ \E i \in 1..Len(u) : /\ u[i] \in TwiceWords
                          /\ Word(u, SkipWord(u, i + 1, "a")) \in DailyWords
  \/ \E i \in 1..Len(u) : u[i] \in FrequencyCodeWords

hasDuration(u) ==
  \E i \in 1..Len(u) : /\ u[i] \in ForWords
                       /\ Word(u, i + 1) \in NumberWords
                       /\ Word(u, i + 2) \in PeriodWords

hasPrescribeKeyword(u) == \E i \in 1..Len(u) : u[i] \in PrescribeWords

\* confidence accumulated from the four signals of the text
signalScore(u) ==
  (IF hasDosage(u) THEN 30 ELSE 0) + (IF hasFrequency(u) THEN 20 ELSE 0)
  + (IF hasDuration(u) THEN 20 ELSE 0) + (IF hasPrescribeKeyword(u) THEN 30 ELSE 0)

prescriptionConfidenceUncapped(score, medication) ==
  score + (medication.confidence * 30) \div 100

\* Math.min(1.0, confidence + medication.confidence * 0.3)
prescriptionConfidence(score, medication) ==
  AtMostOne(score + (medication.confidence * 30) \div 100)

\* detectPrescription with the threshold applied to the boosted confidence
detectPrescriptionThresholdAfterBoost(u, terms) ==
  LET medicationTerms == OfCategory(terms, "medication")
  IN IF medicationTerms = <<>> THEN NoAction
     ELSE IF prescriptionConfidence(signalScore(u), medicationTerms[1]) < 50
     THEN NoAction
     ELSE DetectedAction("prescription",
                         prescriptionConfidence(signalScore(u), medicationTerms[1]),
                         medicationTerms[1].term, "none")

detectPrescription(u, terms) ==
  LET medicationTerms == OfCategory(terms, "medication")
  IN IF medicationTerms = <<>> THEN NoAction
     ELSE IF signalScore(u) < 50 THEN NoAction
     ELSE DetectedAction("prescription",
                         prescriptionConfidence(signalScore(u), medicationTerms[1]),
                         medicationTerms[1].term, "none")

\* ---- detectLabOrder ----
\* Words that end in order, need, get, run or check
LabVerbWords == {"order"}
\* Words that begin with test, work or labs?
LabNounWords == {"work"}
\* Words that end in blood or lab; words that begin with test or work
BloodWords == {"blood"}
TestWorkWords == {"work"}
\* Words that contain stat, urgent or immediately ("right away" needs words
\* the vocabulary lacks); words that contain soon or today
StatWords == {"stat"}
SoonWords == {"soon", "today"}

\* labPatterns; the third, check ... levels?, needs words the vocabulary lacks
hasLabPattern(u) ==
  \/ \E i \in 1..Len(u) :
       /\ u[i] \in LabVerbWords
       /\ Word(u, SkipWord(u, SkipWord(u, i + 1, "a"), "blood")) \in LabNounWords
  \/ \E i \in 1..Len(u) : u[i] \in BloodWords /\ Word(u, i + 1) \in TestWorkWords

labUrgency(u) ==
  IF \E i \in 1..Len(u) : u[i] \in StatWords THEN "stat"
  ELSE IF \E i \in 1..Len(u) : u[i] \in SoonWords THEN "urgent"
  ELSE "routine"

detectLabOrder(u, terms) ==
  LET labTerms == OfCategory(terms, "lab")
  IN IF ~hasLabPattern(u) /\ labTerms = <<>> THEN NoAction
     ELSE DetectedAction("lab_order",
                         IF hasLabPattern(u) THEN 90 ELSE 70,
                         IF labTerms # <<>> THEN labTerms[1].term ELSE "blood work",
                         labUrgency(u))

\* ---- detectFollowUp ----
\* The lead phrases (come\s+back|follow\s*up|see\s+you|return|schedule) that
\* words of the vocabulary can form, as the number of words they take at i.
LeadLength(u, i) ==
  IF Word(u, i) = "return" THEN 1
  ELSE IF Word(u, i) = "follow" /\ Word(u, i + 1) = "up" THEN 2
  ELSE 0

\* (week|month|couple\s+of\s+weeks) matches the start of these words, and
\* match[0] ends where the alternative does
PeriodStem == [w \in {"weeks"} |-> "week"]

\* lead (in)? (\d+) (days?|weeks?|months?): the cleaned-up timeframe of the
\* match that starts at word i, "" if there is none
numberedFollowUpAt(u, i) ==
  LET k == SkipWord(u, i + LeadLength(u, i), "in")
  IN IF /\ LeadLength(u, i) > 0
        /\ Word(u, k) \in NumberWords
        /\ Word(u, k + 1) \in PeriodWords
     THEN Join(<<u[k], u[k + 1]>>) ELSE ""

\* lead (in)? (a)? (week|month|couple of weeks)
looseFollowUpAt(u, i) ==
  LET k == SkipWord(u, i + LeadLength(u, i), "in")
      p == SkipWord(u, k, "a")
  IN IF LeadLength(u, i) > 0 /\ Word(u, p) \in DOMAIN PeriodStem
     THEN Join(SubSeq(u, k, p - 1) \o <<PeriodStem[u[p]]>>) ELSE ""

\* followUpPatterns in order, each by its leftmost match (utterance.match);
\* the third needs schedule or make, which the vocabulary lacks
detectFollowUp(u) ==
  LET numberedAt == {i \in 1..Len(u) : numberedFollowUpAt(u, i) # ""}
      looseAt == {i \in 1..Len(u) : looseFollowUpAt(u, i) # ""}
  IN IF numberedAt # {}
     THEN DetectedAction("follow_up", 85,
                         numberedFollowUpAt(u, Least(numberedAt)), "none")
     ELSE IF looseAt # {}
     THEN DetectedAction("follow_up", 85,
                         looseFollowUpAt(u, Least(looseAt)), "none")
     ELSE NoAction

\* ---- detectReferral ----
\* Words that contain the name of a specialty, specialist or doctor
SpecialtyWords == {"cardiologist"}
\* Words that are part of the name of a specialty: s.includes(specialty)
PartOfSpecialtyWords == {"a", "cardiologist", "in", "to"}
\* Words that contain urgent, soon or asap
ReferralUrgentWords == {"soon"}

\* refer(?:ring)?\s+(?:you\s+)?to\s+(?:a\s+)?(\w+(?:\s+\w+)?): match[1] of
\* the match that starts at word i, as its words; <<>> if there is none.
\* "a" is taken as the article only when a word follows it.
referredToAt(u, i) ==
  LET t == SkipWord(u, i + 1, "you")
      c == IF Word(u, t + 1) = "a" /\ t + 2 <= Len(u) THEN t + 2 ELSE t + 1
  IN IF Word(u, i) = "refer" /\ Word(u, t) = "to" /\ c <= Len(u)
     THEN SubSeq(u, c, IF c < Len(u) THEN c + 1 ELSE c) ELSE <<>>

isValidSpecialty(specialty) ==
  \/ \E k \in DOMAIN specialty : specialty[k] \in SpecialtyWords
  \/ Len(specialty) = 1 /\ specialty[1] \in PartOfSpecialtyWords

\* referralPatterns in order; the second and third need see, consult or
\* consultation, which the vocabulary lacks
detectReferral(u) ==
  LET at == {i \in 1..Len(u) : referredToAt(u, i) # <<>>}
      specialty == IF at = {} THEN <<>> ELSE referredToAt(u, Least(at))
  IN IF specialty # <<>> /\ isValidSpecialty(specialty)
     THEN DetectedAction("referral", 80, Join(specialty),
                         IF \E i \in 1..Len(u) : u[i] \in ReferralUrgentWords
                         THEN "urgent" ELSE "routine")
     ELSE NoAction

\* ---- detectDiagnosticTest ----
\* Words that (x-?ray|mri|ct\s*scan|ultrasound|echo(?:cardiogram)?) matches
ImagingWords == {"mri", "ultrasound"}

\* diagnosticPatterns; the first needs scan, test or imaging, which the
\* vocabulary lacks
detectDiagnosticTest(u, terms) ==
  LET diagnosticTerms == OfCategory(terms, "procedure")
      at == {i \in 1..Len(u) : u[i] \in ImagingWords}
      urgency == IF \E i \in 1..Len(u) : u[i] \in StatWords
                 THEN "urgent" ELSE "routine"
  IN IF diagnosticTerms # <<>>
     THEN DetectedAction("diagnostic_test", 80, diagnosticTerms[1].term, urgency)
     ELSE IF at # {}
     THEN DetectedAction("diagnostic_test", 70, u[Least(at)], urgency)
     ELSE NoAction

\* ---- detectActions ----
\* What a call returns: the actions, and how often it ran detectTerms
Returned(actions, lookups) == [actions |-> actions, termLookups |-> lookups]

runMatchers(u) ==
  LET terms == detectTerms(u)
      found == <<detectPrescription(u, terms),
                 detectLabOrder(u, terms),
                 detectFollowUp(u),
                 detectReferral(u),
                 detectDiagnosticTest(u, terms)>>
  IN Returned(SelectSeq(found, LAMBDA a : a # NoAction), 1)

detectActionsAnyRole(u, role) == runMatchers(u)

detectActions(u, role) ==
  IF role # "clinician" THEN Returned(<<>>, 0) ELSE runMatchers(u)

\* The five matchers, in the order detectActions calls them
Matchers == <<"detectPrescription", "detectLabOrder", "detectFollowUp",
              "detectReferral", "detectDiagnosticTest">>

MatcherNames == {Matchers[k] : k \in DOMAIN Matchers}

Pending == [actions |-> <<>>, termLookups |-> 0, done |-> FALSE, rejected |-> FALSE]

\* The call as a promise.  detectActions has no try/catch: when a matcher
\* it calls throws, the exception leaves detectActions, the promise rejects
\* and the actions pushed so far are lost with it.
settleDetectActions(u, role, throwing) ==
  LET r == detectActions(u, role)
  IN IF throwing # "none" /\ role = "clinician"
     THEN [actions |-> <<>>, termLookups |-> r.termLookups, done |-> TRUE,
           rejected |-> TRUE]
     ELSE [actions |-> r.actions, termLookups |-> r.termLookups, done |-> TRUE,
           rejected |-> FALSE]

\* A call detectActions(utterance, context) about to run
InitDetector ==
  /\ utterance \in Utterances
  /\ ctxRole \in Roles
  /\ fault \in MatcherNames \cup {"none"}
  /\ dictionary = medicalTerms
  /\ answers = {}
  /\ detection = Pending

\* No detection request
IdleDetector ==
  /\ utterance = <<>>
  /\ ctxRole = "clinician"
  /\ fault = "none"
  /\ dictionary = medicalTerms
  /\ answers = {}
  /\ detection = Pending

Answer(call, u, role, value) ==
  [call |-> call, utterance |-> u, role |-> role, returned |-> value]

DetectActions ==
  /\ ~detection.done
  /\ detection' = settleDetectActions(utterance, ctxRole, fault)
  /\ dictionary' = IF detection'.termLookups = 0 THEN dictionary
                   ELSE termsAfterLookup(dictionary, utterance)
  /\ answers' = answers \cup
       {Answer("detectActions", utterance, ctxRole,
               IF detection'.rejected THEN "rejected" ELSE detection'.actions)}
  /\ UNCHANGED <<utterance, ctxRole, fault>>
  /\ UNCHANGED notDetector

NextDetector == DetectActions

\* The texts of the calls that follow one another on one detector
CallTexts == {
  <<"prescribe", "advil", "400", "mg", "tid", "for", "7", "days">>,
  <<"order", "a", "blood", "work", "cbc", "stat", "today">>,
  <<"refer", "to", "a", "cardiologist", "soon", "stat", "ultrasound">> }

\* A sequence of calls on one ActionDetector, none with a throwing matcher
InitCalls ==
  /\ utterance \in CallTexts
  /\ ctxRole \in Roles
  /\ fault = "none"
  /\ dictionary = medicalTerms
  /\ answers = {}
  /\ detection = Pending

\* The next detectActions(u, {role}) call arrives.
NextCall(u, role) ==
  /\ detection.done
  /\ utterance' = u
  /\ ctxRole' = role
  /\ detection' = Pending
  /\ UNCHANGED <<fault, dictionary, answers>>
  /\ UNCHANGED notDetector

\* Another caller runs detectTerms(u) on the same MedicalTermDetector.
LookupTerms(u) ==
  /\ answers' = answers \cup {Answer("detectTerms", u, "none", detectTerms(u))}
  /\ dictionary' = termsAfterLookup(dictionary, u)
  /\ UNCHANGED <<utterance, ctxRole, fault, detection>>
  /\ UNCHANGED notDetector

CallArrives == \E u \in CallTexts, role \in Roles : NextCall(u, role)
TermsLookedUp == \E u \in CallTexts : LookupTerms(u)

NextCalls == DetectActions \/ CallArrives \/ TermsLookedUp

(***************************************************************************)
(* Routes: POST /api/actions/detect and POST /api/actions/[id]/validate    *)
(***************************************************************************)

\* Validate requests the model sends.
MaxValidations == 2

\* No document under this id
NoDocument == [saved |-> FALSE, validated |-> FALSE, webhookStatus |-> "undefined"]

\* detect route: actionData with validated: false and no webhook field,
\* passed through actionCreateSchema.parse and inserted
insertedAction == [saved |-> TRUE, validated |-> FALSE, webhookStatus |-> "undefined"]

\* updateOne({_id}, {$set: {validated: true, validatedAt: new Date()}})
setValidatedNever(doc) == doc
setValidated(doc) == [doc EXCEPT !.validated = TRUE]

\* updateOne({_id}, {$set: {'webhook.status': status, ...}})
setWebhookStatus(doc, status) == [doc EXCEPT !.webhookStatus = status]

InitRoutes ==
  /\ actionDocs = [a \in ActionIds |-> NoDocument]
  /\ validations = <<>>

\* detect route, one turn of its loop: insertOne for a detected action
SaveDetectedAction(a) ==
  /\ ~actionDocs[a].saved
  /\ actionDocs' = [actionDocs EXCEPT ![a] = insertedAction]
  /\ UNCHANGED validations
  /\ UNCHANGED notRoute

\* validate route up to `await findOne`: the id is a valid ObjectId
ValidateRequest(a, withUrl) ==
  /\ Len(validations) < MaxValidations
  /\ validations' = Append(validations,
        [id |-> a, webhookUrl |-> withUrl, pc |-> "findOne", response |-> 0,
         posts |-> 0, validatedAtPost |-> FALSE, result |-> "none"])
  /\ UNCHANGED actionDocs
  /\ UNCHANGED notRoute

\* findOne resolves: 404 when there is no such action
ValidateFound(r) ==
  /\ validations[r].pc = "findOne"
  /\ validations' = [validations EXCEPT ![r] =
        IF actionDocs[@.id].saved THEN [@ EXCEPT !.pc = "updateOne"]
        ELSE [@ EXCEPT !.pc = "done", !.response = 404]]
  /\ UNCHANGED actionDocs
  /\ UNCHANGED notRoute

\* updateOne resolves.  modifiedCount is 0 (response 500) only when nothing
\* changed, which takes a document validated before at the same validatedAt.
\* With an x-webhook-url header the route then calls executeWebhook, which
\* runs up to its `await fetch`: the POST is under way when the route
\* answers 200.
ValidateUpdated(r, modified) ==
  LET v == validations[r]
      doc == setValidated(actionDocs[v.id])
  IN /\ v.pc = "updateOne"
     /\ ~modified => actionDocs[v.id].validated
     /\ actionDocs' = [actionDocs EXCEPT ![v.id] = doc]
     /\ validations' = [validations EXCEPT ![r] =
           IF ~modified THEN [v EXCEPT !.pc = "done", !.response = 500]
           ELSE IF v.webhookUrl
           THEN [v EXCEPT !.pc = "webhook", !.response = 200, !.posts = @ + 1,
                          !.validatedAtPost = doc.validated]
           ELSE [v EXCEPT !.pc = "done", !.response = 200]]
     /\ UNCHANGED notRoute

\* executeWebhook(...).then(result => ...): the status of the one attempt
\* is written to the document.
WebhookSettled(r, outcome) ==
  LET v == validations[r]
      status == IF executeWebhook(outcome).success THEN "sent" ELSE "failed"
  IN /\ v.pc = "webhook"
     /\ actionDocs' = [actionDocs EXCEPT ![v.id] = setWebhookStatus(@, status)]
     /\ validations' = [validations EXCEPT ![r] =
           [v EXCEPT !.pc = "done", !.result = status]]
     /\ UNCHANGED notRoute

DetectSaves == \E a \in ActionIds : SaveDetectedAction(a)
ValidateArrives == \E a \in ActionIds, withUrl \in BOOLEAN : ValidateRequest(a, withUrl)
ValidateFinds == \E r \in DOMAIN validations : ValidateFound(r)
ValidateUpdates == \E r \in DOMAIN validations, m \in BOOLEAN : ValidateUpdated(r, m)
WebhookSettles == \E r \in DOMAIN validations, o \in FetchOutcomes : WebhookSettled(r, o)

NextRoutes ==
  \/ DetectSaves \/ ValidateArrives \/ ValidateFinds \/ ValidateUpdates
  \/ WebhookSettles

(***************************************************************************)
(* WebhookExecutor.generateSignature / verifySignature                     *)
(***************************************************************************)

\* process.env.WEBHOOK_SECRET || 'default-webhook-secret'
webhookSecret == "default-webhook-secret"

\* WebhookPayload values: the action id, the medication name and RxNorm code
\* of its details, and the timestamp.  A code of "undefined" is a property
\* that is present with the value undefined (medication.codes?.rxnorm of a
\* term without codes), "absent" a property the object does not have.
WebhookPayloads ==
  [id : ActionIds, name : {"ibuprofen"}, rxnormCode : {"undefined", "absent", "5640"},
   timestamp : {"2025-01-01T00:00:00.000Z", "2025-01-01T00:00:02.000Z"}]

\* JSON.stringify(payload): properties in insertion order; a property whose
\* value is undefined is left out, like one that is absent.
stringify(payload) ==
  "{\"event\":\"medical.action.detected\",\"action\":{\"id\":\"" \o payload.id
  \o "\",\"type\":\"prescription\",\"details\":{\"medication\":{\"name\":\""
  \o payload.name \o "\""
  \o (IF payload.rxnormCode \in {"undefined", "absent"} THEN ""
      ELSE ",\"rxnormCode\":\"" \o payload.rxnormCode \o "\"")
  \o "}}},\"timestamp\":\"" \o payload.timestamp \o "\"}"

\* createHmac('sha256', key).update(message).digest('hex').  HMAC-SHA256 is
\* taken as collision-free: a digest stands for the key and message it was
\* made from.
hmacSha256Hex(key, message) == "hmac(" \o key \o "," \o message \o ")"

generateSignatureOfAction(payload) ==
  "sha256=" \o hmacSha256Hex(webhookSecret,
                              stringify([payload EXCEPT !.timestamp = ""]))

generateSignature(payload) ==
  "sha256=" \o hmacSha256Hex(webhookSecret, stringify(payload))

verifySignature(signature, payload) == signature = generateSignature(payload)

Unsigned == [signature |-> "none", own |-> "none", other |-> "none"]

InitSigning ==
  /\ payloads \in [own : WebhookPayloads, other : WebhookPayloads]
  /\ signing = Unsigned

IdleSigning ==
  /\ payloads = [own |-> CHOOSE p \in WebhookPayloads : TRUE,
                 other |-> CHOOSE p \in WebhookPayloads : TRUE]
  /\ signing = Unsigned

\* const signature = this.generateSignature(payload)
GenerateSignature ==
  /\ signing.signature = "none"
  /\ signing' = [signing EXCEPT !.signature = generateSignature(payloads.own)]
  /\ UNCHANGED payloads
  /\ UNCHANGED notSign

\* A receiver checks the signature against the payload it came with, and
\* against the other payload.
VerifySignature ==
  /\ signing.signature # "none"
  /\ signing.own = "none"
  /\ signing' = [signing EXCEPT
        !.own = IF verifySignature(signing.signature, payloads.own)
                THEN "true" ELSE "false",
        !.other = IF verifySignature(signing.signature, payloads.other)
                  THEN "true" ELSE "false"]
  /\ UNCHANGED payloads
  /\ UNCHANGED notSign

NextSigning == GenerateSignature \/ VerifySignature

(***************************************************************************)
(* Specifications                                                          *)
(***************************************************************************)

InitHook ==
  InitDeliveries /\ InitUtterances /\ InitClient /\ IdleDetector /\ InitRoutes
  /\ IdleSigning
InitView ==
  InitDeliveries /\ InitUtterances /\ InitClient /\ IdleDetector /\ InitRoutes
  /\ IdleSigning
InitClientSpec ==
  InitDeliveries /\ InitUtterances /\ InitClient /\ IdleDetector /\ InitRoutes
  /\ IdleSigning
InitDetectorSpec ==
  InitDeliveries /\ InitUtterances /\ InitClient /\ InitDetector /\ InitRoutes
  /\ IdleSigning
InitRoutesSpec ==
  InitDeliveries /\ InitUtterances /\ InitClient /\ IdleDetector /\ InitRoutes
  /\ IdleSigning

\* Webhook deliveries while the interpretation session ends: one
\* processWebhook call chain per action, and disconnect() calls at any time.
processWebhookOnce(i, a) ==
  /\ \A j \in 1..MaxDeliveries : deliveries[j].action # a
  /\ processWebhook(i, a)

\* disconnect() with a webhook queue whose pending retries it would cancel
retriesAfterDisconnectCancelled(ds) ==
  [i \in DOMAIN ds |->
     IF ds[i].phase = "timer" THEN [ds[i] EXCEPT !.phase = "cancelled"] ELSE ds[i]]

\* What disconnect() does to the deliveries: it releases the stream, the
\* data channel and the peer connection of the client and clears no timer.
retriesAfterDisconnect(ds) == ds

SessionDisconnects ==
  /\ client' = disconnect(Enter(client))
  /\ lastOp' = Ran("disconnect")
  /\ deliveries' = retriesAfterDisconnect(deliveries)
  /\ UNCHANGED <<connPc, connResult, connects>>
  /\ UNCHANGED <<viewVars, detectorVars, routeVars, signVars>>

StartDeliveryPerAction ==
  \E i \in 1..MaxDeliveries, a \in ActionIds : processWebhookOnce(i, a)

NextDelivery ==
  StartDeliveryPerAction \/ FinishAttempt \/ FireTimer \/ SessionDisconnects

\* Every awaited executeWebhook settles (it has a timeout), and every timer
\* set with setTimeout fires.
FairDelivery ==
  \A i \in 1..MaxDeliveries :
    /\ WF_vars(\E o \in FetchOutcomes : AttemptReturns(i, o))
    /\ WF_vars(RetryTimerFires(i))

InitSigningSpec ==
  InitDeliveries /\ InitUtterances /\ InitClient /\ IdleDetector /\ InitRoutes
  /\ InitSigning

InitCallsSpec ==
  InitDeliveries /\ InitUtterances /\ InitClient /\ InitCalls /\ InitRoutes
  /\ IdleSigning

NextHook == StartDelivery \/ FinishAttempt \/ FireTimer

SpecHook == InitHook /\ [][NextHook]_vars
SpecView == InitView /\ [][NextView]_vars
SpecClient == InitClientSpec /\ [][NextClient]_vars
SpecDetector == InitDetectorSpec /\ [][NextDetector]_vars
SpecRoutes == InitRoutesSpec /\ [][NextRoutes]_vars
SpecSigning == InitSigningSpec /\ [][NextSigning]_vars
SpecCalls == InitCallsSpec /\ [][NextCalls]_vars
SpecDelivery == InitHook /\ [][NextDelivery]_vars /\ FairDelivery

(***************************************************************************)
(* Claims about WebhookQueue.processWebhook                                *)
(***************************************************************************)

AllFailed(d) == \A k \in 1..Len(d.results) : ~d.results[k].success
SomeSucceeded(d) == \E k \in 1..Len(d.results) : d.results[k].success

\* C8, state part: a delivery whose attempts all fail never starts more than
\* 3 attempts, is over as soon as the third has failed, and is then reported
\* once, as 'failed' with attempts = 3 and the last error, with no timer left.
C8_FailedAfterThree ==
  \A i \in 1..MaxDeliveries :
    LET d == deliveries[i] IN
    AllFailed(d) =>
      /\ d.started <= 3
      /\ Len(d.results) = 3 => d.phase = "done"
      /\ d.phase = "done" =>
           /\ d.started = 3 /\ Len(d.results) = 3
           /\ d.updates = <<[status |-> "failed", attempts |-> 3,
                             error |-> d.results[3].error]>>

\* C8, step part: once a delivery has been reported 'failed' nothing of it
\* changes any more: no further attempt starts and no timer is scheduled.
C8_NothingAfterFailed ==
  \A i \in 1..MaxDeliveries :
    (deliveries[i].updates # <<>> /\ deliveries[i].updates[1].status = "failed")
      => deliveries'[i] = deliveries[i]

\* C8: when every attempt of a delivery fails, exactly 3 attempts are made;
\* after the third failure the status is reported 'failed' and no further
\* attempt or timer is ever scheduled for that delivery.
C8_ExactlyThreeAttempts == [](C8_FailedAfterThree) /\ [][C8_NothingAfterFailed]_vars

C8_Witness ==
  \E i \in 1..MaxDeliveries :
    /\ deliveries[i].phase = "done" /\ AllFailed(deliveries[i])
    /\ Len(deliveries[i].results) = 3
    /\ deliveries[i].updates # <<>>

\* C9: the delay scheduled after failed attempt n is baseDelay * 2^(n-1)
\* (2000 ms, then 4000 ms), so the delays of one delivery strictly increase.
C9_BackoffDelays ==
  \A i \in 1..MaxDeliveries :
    LET d == deliveries[i] IN
    /\ \A n \in 1..Len(d.delays) :
         /\ d.delays[n] = baseDelay * 2^(n - 1)
         /\ ~d.results[n].success
    /\ \A n \in 1..(Len(d.delays) - 1) : d.delays[n] < d.delays[n + 1]
    /\ d.phase = "timer" => Len(d.delays) = d.attempt

C9_Witness ==
  \E i \in 1..MaxDeliveries : deliveries[i].delays = <<2000, 4000>>

\* C10, state part: a successful attempt is the last attempt of its delivery;
\* the delivery is reported once, as 'sent' with the number of that attempt,
\* and is left with no attempt running and no timer pending.
C10_SentAtFirstSuccess ==
  \A i \in 1..MaxDeliveries :
    LET d == deliveries[i] IN
    SomeSucceeded(d) =>
      /\ d.results[Len(d.results)].success
      /\ \A k \in 1..(Len(d.results) - 1) : ~d.results[k].success
      /\ d.phase = "done"
      /\ d.started = Len(d.results)
      /\ Len(d.delays) = Len(d.results) - 1
      /\ d.updates = <<[status |-> "sent", attempts |-> Len(d.results),
                        error |-> "none"]>>

\* C10, step part: after the 'sent' report the delivery never changes again.
C10_NothingAfterSent ==
  \A i \in 1..MaxDeliveries :
    SomeSucceeded(deliveries[i]) => deliveries'[i] = deliveries[i]

\* C10: the first successful attempt (attempt 1, 2 or 3) sets the status to
\* 'sent' with that attempt count; no later attempt is made and no retry
\* timer is scheduled for that delivery.
C10_SuccessHaltsRetries == [](C10_SentAtFirstSuccess) /\ [][C10_NothingAfterSent]_vars

C10_Witness ==
  /\ \E i \in 1..MaxDeliveries :
       /\ deliveries[i].updates # <<>>
       /\ deliveries[i].updates[1] = [status |-> "sent", attempts |-> 3, error |-> "none"]
  /\ \E i \in 1..MaxDeliveries :
       /\ deliveries[i].updates # <<>>
       /\ deliveries[i].updates[1] = [status |-> "sent", attempts |-> 1, error |-> "none"]

(***************************************************************************)
(* Claims about the translation correlation of the view                    *)
(***************************************************************************)

\* The step is one run of the client.on('translation') listener.
TranslationStep == viewLog'.op = "translation" /\ viewLog'.tick # viewLog.tick

Lacking(list) == {k \in DOMAIN list : list[k].translatedText = NoText}

\* The store after `text` was attached to the utterance with `id` and to no other.
AttachedTo(id, text) ==
  /\ DOMAIN utterances' = DOMAIN utterances
  /\ \A k \in DOMAIN utterances :
       utterances'[k] = IF utterances[k].id = id
                        THEN [utterances[k] EXCEPT !.translatedText = text]
                        ELSE utterances[k]

\* C3 as stated: a translation event is attached to the utterance with the
\* greatest sequence number among the utterances lacking a translation, also
\* when that utterance is not the last one of the list. (Stated for the
\* events that arrive when the view has rendered the current list, so that
\* the refutation does not rest on a stale rendering.)
C3_LatestUntranslatedReceives ==
  [][(TranslationStep /\ snapshot = utterances) =>
       (Lacking(utterances) # {} =>
          LET m == CHOOSE k \in Lacking(utterances) :
                     \A j \in Lacking(utterances) :
                       utterances[j].sequenceNumber <= utterances[k].sequenceNumber
          IN AttachedTo(utterances[m].id, viewLog'.text))]_vars

\* C3 amended: a translation event is attached to the last utterance of the
\* list the view last rendered, and only if that utterance has no translation
\* in that rendering; otherwise the event is dropped. No other utterance
\* changes, so an earlier utterance lacking a translation never receives it.
C3_LastRenderedReceives ==
  [][TranslationStep =>
       IF snapshot # <<>> /\ snapshot[Len(snapshot)].translatedText = NoText
       THEN AttachedTo(snapshot[Len(snapshot)].id, viewLog'.text)
       ELSE utterances' = utterances]_vars

\* A translation was dropped although an earlier utterance lacks one.
C3_Witness ==
  /\ viewLog.op = "translation"
  /\ Len(utterances) = 2 /\ snapshot = utterances
  /\ utterances[1].translatedText = NoText
  /\ utterances[2].translatedText = "t1"
  /\ viewLog.text = "t2"

\* C4: once an utterance's translatedText is set, no later event changes it.
C4_TranslationSetOnce ==
  [][\A k \in DOMAIN utterances :
       (/\ utterances[k].translatedText # NoText
        /\ k \in DOMAIN utterances'
        /\ utterances'[k].id = utterances[k].id)
       => utterances'[k].translatedText = utterances[k].translatedText]_vars

(***************************************************************************)
(* Claims about RealtimeClient                                             *)
(***************************************************************************)

\* The client without what its last handler emitted.
Held(c) == [c EXCEPT !.emitted = <<>>]

\* The step is a disconnect() call that directly follows a disconnect() call.
SecondDisconnectStep ==
  /\ lastOp.op = "disconnect"
  /\ lastOp'.op = "disconnect" /\ lastOp'.tick # lastOp.tick

\* C5 as stated: a second disconnect() with no connect() in between is a
\* no-op: it changes no state and emits no statusChanged or other event.
C5_SecondDisconnectSilent ==
  [][SecondDisconnectStep =>
       /\ Held(client') = Held(client)
       /\ client'.emitted = <<>>]_vars

\* C5 amended: a disconnect() that directly follows a disconnect() changes no
\* state of the client (status stays 'disconnected'; pc, dc and localStream
\* stay null; a connect() in flight is left where it is), and it emits
\* statusChanged('disconnected') once more and nothing else.
C5_SecondDisconnectKeepsState ==
  [][SecondDisconnectStep =>
       /\ Held(client') = Held(client)
       /\ client'.status = "disconnected"
       /\ client'.pc = "null" /\ client'.dc = "null" /\ client'.localStream = "null"
       /\ <<connPc', connResult'>> = <<connPc, connResult>>
       /\ client'.emitted = <<"statusChanged:disconnected">>]_vars

C5_Witness ==
  /\ lastOp.op = "disconnect" /\ lastOp.prev = "disconnect"
  /\ client.emitted = <<"statusChanged:disconnected">>
  /\ connResult = "resolved"

\* The step is the catch block of connect(): the call in flight ends rejected.
ConnectFailedStep ==
  /\ connPc # "none" /\ connPc' = "none"
  /\ connResult' = "rejected"

CleanupEffects == {"stop:localStream", "close:dc", "close:pc"}

Occurs(e, seq) == \E k \in DOMAIN seq : seq[k] = e

\* C6: when a step of connect() fails, observers see statusChanged('error'),
\* then the error event, then the cleanup (the stream stopped, the data
\* channel and the peer connection closed, all three released), then
\* statusChanged('disconnected'); and the promise of connect() is rejected.
C6_FailureOrder ==
  [][ConnectFailedStep =>
       LET e == client'.emitted IN
       /\ Len(e) >= 3
       /\ e[1] = "statusChanged:error"
       /\ e[2] = "error"
       /\ e[Len(e)] = "statusChanged:disconnected"
       /\ \A k \in 3..(Len(e) - 1) : e[k] \in CleanupEffects
       /\ client.localStream # "null" => Occurs("stop:localStream", e)
       /\ client.dc # "null" => Occurs("close:dc", e)
       /\ client.pc # "null" => Occurs("close:pc", e)
       /\ client'.localStream = "null" /\ client'.dc = "null" /\ client'.pc = "null"
       /\ client'.status = "disconnected"]_vars

\* The SDP exchange answered not-ok with stream, channel and connection held.
C6_Witness ==
  /\ connResult = "rejected"
  /\ lastOp.op = "fail:fetchSdp"
  /\ client.emitted = <<"statusChanged:error", "error", "stop:localStream",
                        "close:dc", "close:pc", "statusChanged:disconnected">>

\* The step is the ICE handler running for iceConnectionState 'failed', in a
\* session whose connect() has returned (no catch block is still to come).
IceFailedStep ==
  /\ lastOp'.op = "ice:failed" /\ lastOp'.tick # lastOp.tick
  /\ connResult = "resolved"

\* C7: when the ICE state becomes 'failed', the status becomes 'error', an
\* error event is emitted, and cleanup follows: the local media is stopped and
\* the data channel and the peer connection are closed and released.
C7_IceFailureCleansUp ==
  [][IceFailedStep =>
       /\ client'.status = "error"
       /\ Occurs("error", client'.emitted)
       /\ client'.localStream = "null"
       /\ client'.dc = "null"
       /\ client'.pc = "null"]_vars

(***************************************************************************)
(* Claims about ActionDetector.detectActions                               *)
(***************************************************************************)

\* C1: for a context role other than 'clinician', detectActions returns an
\* empty action list whatever the text is, and it returns before the term
\* lookup (detectTerms) and the matchers behind it have run.
C1_NonClinicianYieldsNothing ==
  (detection.done /\ ctxRole # "clinician")
    => (detection.actions = <<>> /\ detection.termLookups = 0)

\* A patient said what would be an action had a clinician said it.
C1_Witness ==
  /\ detection.done
  /\ ctxRole # "clinician"
  /\ runMatchers(utterance).actions # <<>>

\* C2: every action detectActions returns has a confidence between 0 and 1
\* (0 and 100 hundredths), whatever signals the text combines: dosage,
\* frequency, duration, prescribing keyword, and the confidence of the
\* medication term with its dosage-proximity boost.
C2_ConfidenceWithinUnitInterval ==
  \A k \in DOMAIN detection.actions :
    detection.actions[k].confidence \in 0..100

\* A prescription whose four signals and boosted medication term add up to
\* more than 1 before the cap, returned with confidence 1.
C2_Witness ==
  /\ detection.done
  /\ ctxRole = "clinician"
  /\ signalScore(utterance) = 100
  /\ \E t \in {detectTerms(utterance)[k] : k \in DOMAIN detectTerms(utterance)} :
       /\ t.category = "medication"
       /\ t.confidence = 100
       /\ t.position < 50
       /\ dosageMatches(utterance) # <<>>
  /\ \E k \in DOMAIN detection.actions :
       /\ detection.actions[k].type = "prescription"
       /\ detection.actions[k].confidence = 100

(***************************************************************************)
(* Claims about the detect and validate routes                             *)
(***************************************************************************)

\* C11: a delivery the validate route starts is retried when an attempt
\* fails, up to 3 attempts in all, and the action's webhook status is
\* recorded as 'failed' only after those attempts are used up.
C11_FailedOnlyAfterRetries ==
  \A r \in DOMAIN validations :
    validations[r].result = "failed" => validations[r].posts = maxRetries

\* C12: a webhook POST for an action is made only after the action's
\* validated flag has been set to true in the store: the flag is set when
\* the POST goes out and for as long as the POST can be observed.
C12_PostOnlyForValidated ==
  \A r \in DOMAIN validations :
    validations[r].posts > 0
      => (validations[r].validatedAtPost /\ actionDocs[validations[r].id].validated)

\* A validate request with a webhook URL whose POST is under way.
C12_Witness ==
  \E r \in DOMAIN validations :
    /\ validations[r].pc = "webhook"
    /\ validations[r].posts = 1
    /\ validations[r].response = 200

\* C17: from the request of a delivery until it is 'sent' or 'failed' the
\* stored webhook status of the action reads 'pending', and at every moment
\* after the request it is one of pending, sent, failed.
C17_PendingUntilTerminal ==
  \A r \in DOMAIN validations :
    /\ validations[r].pc = "webhook"
         => actionDocs[validations[r].id].webhookStatus = "pending"
    /\ validations[r].posts > 0
         => actionDocs[validations[r].id].webhookStatus \in {"pending", "sent", "failed"}

(***************************************************************************)
(* Claims about WebhookExecutor                                            *)
(***************************************************************************)

MatcherType ==
  [m \in MatcherNames |->
     CASE m = "detectPrescription" -> "prescription"
       [] m = "detectLabOrder" -> "lab_order"
       [] m = "detectFollowUp" -> "follow_up"
       [] m = "detectReferral" -> "referral"
       [] m = "detectDiagnosticTest" -> "diagnostic_test"]

\* C14: if one of the five matchers throws, the other matchers still run
\* and detectActions returns their actions; the call does not fail.
C14_MatcherFailureIsolated ==
  (detection.done /\ ctxRole = "clinician" /\ fault # "none")
    => /\ ~detection.rejected
       /\ detection.actions =
            SelectSeq(runMatchers(utterance).actions,
                      LAMBDA a : a.type # MatcherType[fault])

C16_FailuresAreReturned ==
  \A i \in DOMAIN deliveries :
    \A k \in DOMAIN deliveries[i].results :
      LET result == deliveries[i].results[k]
          outcome == deliveries[i].fetched[k]
      IN /\ ~result.rejected
         /\ outcome # "2xx" => (~result.success /\ result.error # "none")
         /\ \A j \in DOMAIN deliveries :
              \A l \in DOMAIN deliveries[j].results :
                (outcome = "abort" /\ deliveries[j].fetched[l] = "non2xx")
                  => result.error # deliveries[j].results[l].error

\* One delivery met a timeout, a non-2xx response and a network failure.
C16_Witness ==
  \E i \in DOMAIN deliveries :
    /\ deliveries[i].fetched = <<"abort", "non2xx", "networkError">>
    /\ Len(deliveries[i].results) = 3

(***************************************************************************)
(* Claims about the correlation state of RealtimeClient                    *)
(***************************************************************************)

\* C18: disconnect() discards the pending utterance/translation correlation
\* state: when disconnect() has run, the last-utterance pointer is cleared,
\* so nothing recorded before the disconnect is left to be matched with a
\* translation that arrives after the next connect().
C18_DisconnectClearsPointer ==
  lastOp.op = "disconnect" => client.lastUtteranceId = "null"

(***************************************************************************)
(* Claims about conversationSlice                                          *)
(***************************************************************************)

Terminal(d) ==
  /\ d.phase = "done"
  /\ Len(d.updates) = 1
  /\ d.updates[1].status \in {"sent", "failed"}

\* C19: every delivery processWebhook starts eventually reaches a terminal
\* status (sent or failed), given that every attempt returns and every
\* scheduled timer fires; a disconnect of the session, whenever it comes,
\* changes no delivery and cancels no scheduled retry; and a retry pending
\* for one action holds up no attempt or timer of another.
C19_DeliveriesTerminate ==
  /\ \A i \in 1..MaxDeliveries :
       (deliveries[i].phase # "idle") ~> Terminal(deliveries[i])
  /\ [][lastOp' # lastOp => deliveries' = deliveries]_vars
  /\ [](\A i \in 1..MaxDeliveries :
          /\ deliveries[i].phase = "executing"
               => ENABLED (\E o \in FetchOutcomes : AttemptReturns(i, o))
          /\ deliveries[i].phase = "timer" => ENABLED RetryTimerFires(i))

\* A delivery failed for good after three attempts and the session was
\* disconnected meanwhile, with the other action's retry still pending.
C19_Witness ==
  \E i, j \in 1..MaxDeliveries :
    /\ Terminal(deliveries[i])
    /\ deliveries[i].updates[1].status = "failed"
    /\ deliveries[j].phase = "timer"
    /\ lastOp.op = "disconnect"

(***************************************************************************)
(* Claims about inbound messages                                           *)
(***************************************************************************)

Unparsable == {data \in DataFrames : jsonParse(data).threw}

\* C21: a data-channel message that cannot be parsed is dropped: the handler
\* emits nothing (no utterance, translation, speech, error or status event)
\* and changes nothing of the client, and a well-formed message that arrives
\* next is still handled (a speech-started frame emits speechStart).
C21_UnparsableIsDropped ==
  /\ [][\A data \in Unparsable :
          (lastOp' # lastOp /\ lastOp'.op = "message:" \o data)
            => client' = Enter(client)]_vars
  /\ [](\A data \in Unparsable :
          lastOp.op = "message:" \o data
            => /\ client.emitted = <<>>
               /\ ENABLED MessageArrives(SpeechStartedFrame))
  /\ [](\A data \in Unparsable :
          (lastOp.prev = "message:" \o data
             /\ lastOp.op = "message:" \o SpeechStartedFrame)
            => client.emitted = <<"speechStart">>)

\* A speech-started frame was handled right after a truncated frame.
C21_Witness ==
  /\ lastOp.prev = "message:{\"type\":"
  /\ lastOp.op = "message:" \o SpeechStartedFrame
  /\ client.emitted = <<"speechStart">>
  /\ client.status = "connected"

(***************************************************************************)
(* Claims about the scenarios of the rule-based detector                   *)
(***************************************************************************)

\* "I'm ordering a complete blood count", in lower case
BloodCountOrder == <<"i'm", "ordering", "a", "complete", "blood", "count">>

\* C22: for the clinician utterance "I'm ordering a complete blood count"
\* detectActions returns exactly one action, a lab_order, with confidence
\* 0.9 (90 hundredths).
C22_BloodCountOrderAtNinety ==
  (detection.done /\ ~detection.rejected /\ ctxRole = "clinician"
     /\ utterance = BloodCountOrder)
    => /\ Len(detection.actions) = 1
       /\ detection.actions[1].type = "lab_order"
       /\ detection.actions[1].confidence = 90

\* "Follow up in two weeks", in lower case
FollowUpInTwoWeeks == <<"follow", "up", "in", "two", "weeks">>

\* The parts of the utterance that contain "two weeks"
TwoWeeksTimeframes ==
  {Join(SubSeq(FollowUpInTwoWeeks, i, 5)) : i \in 1..4}

\* C23: for the clinician utterance "Follow up in two weeks" detectActions
\* returns one follow_up action, with a timeframe that contains "two weeks"
\* and confidence 0.85 (85 hundredths).
C23_FollowUpInTwoWeeksDetected ==
  (detection.done /\ ~detection.rejected /\ ctxRole = "clinician"
     /\ utterance = FollowUpInTwoWeeks)
    => /\ Len(SelectSeq(detection.actions, LAMBDA a : a.type = "follow_up")) = 1
       /\ \E k \in DOMAIN detection.actions :
            /\ detection.actions[k].type = "follow_up"
            /\ detection.actions[k].detail \in TwoWeeksTimeframes
            /\ detection.actions[k].confidence = 85

(***************************************************************************)
(* Claims about the delivery scenario                                      *)
(***************************************************************************)

\* C24: a delivery through WebhookQueue whose every attempt fails makes 3
\* attempts with two delays between them, 2000 ms and then 4000 ms, and
\* ends reported once as 'failed' with attempts = 3 and the error of the
\* last attempt; no third delay is scheduled.
C24_ThreeAttemptsTwoDelays ==
  \A i \in 1..MaxDeliveries :
    LET d == deliveries[i] IN
    (AllFailed(d) /\ d.phase = "done")
      => /\ d.started = 3
         /\ d.delays = <<baseDelay, 2 * baseDelay>>
         /\ d.updates = <<[status |-> "failed", attempts |-> 3,
                           error |-> d.results[3].error]>>

\* The statement with a delay of about 8 s as well: three attempts, delays
\* of 2000, 4000 and 8000 ms, then 'failed' with the last error.
C24_ThreeAttemptsThreeDelays ==
  \A i \in 1..MaxDeliveries :
    LET d == deliveries[i] IN
    (AllFailed(d) /\ d.phase = "done")
      => /\ d.started = 3
         /\ d.delays = <<baseDelay, 2 * baseDelay, 4 * baseDelay>>
         /\ d.updates = <<[status |-> "failed", attempts |-> 3,
                           error |-> d.results[3].error]>>

\* The URL was unreachable at each of the three attempts.
C24_Witness ==
  \E i \in 1..MaxDeliveries :
    /\ deliveries[i].phase = "done"
    /\ deliveries[i].fetched = <<"networkError", "networkError", "networkError">>
    /\ deliveries[i].updates # <<>>
    /\ deliveries[i].updates[1].status = "failed"

(***************************************************************************)
(* Claims about the translation of two pending utterances                  *)
(***************************************************************************)

\* C25: when two utterances were created and neither has a translation, a
\* single translation event is attached to the most recently created of
\* the two and to it only; the earlier one stays without a translation.
C25_LatestOfTwoReceives ==
  [][(/\ TranslationStep
      /\ Len(utterances) = 2
      /\ Lacking(utterances) = {1, 2})
       => AttachedTo(utterances[2].id, viewLog'.text)]_vars

(***************************************************************************)
(* Claims about the prescription score                                     *)
(***************************************************************************)

\* 0.3 for a dosage, 0.2 for a frequency, 0.2 for a duration and 0.3 for a
\* prescribing keyword, in hundredths
ComposedScore(u) ==
  (IF hasDosage(u) THEN 30 ELSE 0) + (IF hasFrequency(u) THEN 20 ELSE 0)
  + (IF hasDuration(u) THEN 20 ELSE 0) + (IF hasPrescribeKeyword(u) THEN 30 ELSE 0)

Prescriptions == SelectSeq(detection.actions, LAMBDA a : a.type = "prescription")
MedicationsFound == OfCategory(detectTerms(utterance), "medication")

\* C26: a prescription is returned exactly when a medication term was found
\* and the composed score is at least 0.5, the threshold being applied
\* before the term boost; its confidence is the composed score plus 0.3
\* times the confidence of the first medication term, capped at 1.0.
C26_ThresholdBeforeBoost ==
  (detection.done /\ ~detection.rejected /\ ctxRole = "clinician")
    => /\ (Prescriptions # <<>>)
            <=> (MedicationsFound # <<>> /\ ComposedScore(utterance) >= 50)
       /\ Prescriptions # <<>> =>
            /\ Len(Prescriptions) = 1
            /\ LET boosted == ComposedScore(utterance)
                                + (30 * MedicationsFound[1].confidence) \div 100
               IN Prescriptions[1].confidence
                    = IF boosted > 100 THEN 100 ELSE boosted

\* A medication with a dosage only: 0.3 is under the threshold although
\* 0.3 plus the term boost would pass it, and no prescription is returned.
C26_Witness ==
  /\ detection.done /\ ~detection.rejected /\ ctxRole = "clinician"
  /\ MedicationsFound # <<>>
  /\ ComposedScore(utterance) = 30
  /\ ComposedScore(utterance) + (30 * MedicationsFound[1].confidence) \div 100 >= 50
  /\ Prescriptions = <<>>

(***************************************************************************)
(* Claims about the urgency of detected actions                            *)
(***************************************************************************)

\* Words of the vocabulary that contain stat, urgent, immediately, emergent
\* or asap
UrgencyKeywordWords == {"stat"}

HasUrgencyKeyword(u) == \E i \in 1..Len(u) : u[i] \in UrgencyKeywordWords

\* C27: every returned lab_order, referral and diagnostic_test has urgency
\* 'routine' when the utterance contains none of the keywords stat, urgent,
\* immediately, emergent, asap, and urgency stat, urgent or emergent when
\* it contains one of them.
C27_UrgencyFollowsKeywords ==
  (detection.done /\ ~detection.rejected /\ ctxRole = "clinician")
    => \A k \in DOMAIN detection.actions :
         LET a == detection.actions[k] IN
         a.type \in {"lab_order", "referral", "diagnostic_test"}
           => IF HasUrgencyKeyword(utterance)
              THEN a.urgency \in {"stat", "urgent", "emergent"}
              ELSE a.urgency = "routine"

(***************************************************************************)
(* Claims about the status of the session                                  *)
(***************************************************************************)

\* C28: the status becomes 'connected' only from 'connecting': whenever a
\* step of connect(), disconnect() or a connectivity event changes the
\* status to 'connected', the status before the step is 'connecting'.
C28_ConnectedOnlyFromConnecting ==
  [][(client'.status = "connected" /\ client.status # "connected")
       => client.status = "connecting"]_vars

\* connect() is pending and disconnect() has been called since it began:
\* connect() set 'connecting' and only disconnect() sets 'disconnected'.
DisconnectedWhileConnecting ==
  connPc # "none" /\ client.status = "disconnected"

Emits(c, event) == \E k \in DOMAIN c.emitted : c.emitted[k] = event

\* C29: after a disconnect() made while connect() awaits one of its steps,
\* the session stays 'disconnected': the resumed connect() creates or keeps
\* no peer connection, media stream or data channel, emits no error event
\* and leaves the status 'disconnected'.
C29_DisconnectStopsConnect ==
  [][DisconnectedWhileConnecting
       => /\ client'.status = "disconnected"
          /\ client'.pc = "null"
          /\ client'.dc = "null"
          /\ client'.localStream = "null"
          /\ ~Emits(client', "error")]_vars

(***************************************************************************)
(* Claims about repeated validate requests                                 *)
(***************************************************************************)

\* The validate requests that have started a webhook POST for action a
PostedFor(a) ==
  {r \in DOMAIN validations : validations[r].id = a /\ validations[r].posts > 0}

\* C30: for each action at most one webhook delivery is started, however
\* many validate requests are made for it and however they interleave.
C30_OneDeliveryPerAction ==
  \A a \in ActionIds : Cardinality(PostedFor(a)) <= 1

====
